---- MODULE Spec2Model ----
(***************************************************************************)
(* The account quota controller of pkg/manager/quota/controller:           *)
(* two rate-limited work queues, the workers that drain them, the          *)
(* reconciler syncResourceQuota, the informer handlers that enqueue keys,  *)
(* the discovery Sync loop under the worker lock, and Run's shutdown.      *)
(*                                                                         *)
(* The typed client reads the manager's cache, which an informer updates   *)
(* right before it calls the handlers: a change of the cluster and the     *)
(* handler it triggers are one step of the model.                          *)
(***************************************************************************)
EXTENDS Integers, Sequences, FiniteSets, TLC

\* ------------------------------------------------------------------ bounds

\* Largest number of objects of one resource an evaluator counts in a namespace.
MaxUsage == 1
\* Number of events of one behaviour: the changes the environment makes to
\* the cluster, the calls (of the client, of an evaluator) that fail, and the
\* ticks of the full resync timer.
MaxEvents == 1

\* ------------------------------------------------------------- the cluster

Quotas == {"q1", "q2"}
Namespaces == {"n1", "n2"}
\* The order in which the account index lists namespaces.
NamespaceOrder == <<"n1", "n2">>
Accounts == {"a", "b"}
NoAccount == ""
Resources == {"pods", "services"}

\* spec.account of each AccountQuota (never changed in the model).
SpecAccount(q) == IF q = "q1" THEN "a" ELSE "b"

\* A v1.ResourceList: a function from some resource names to quantities.
ResourceLists(max) == UNION {[rs -> 0..max] : rs \in SUBSET Resources}
EmptyList == [r \in {} |-> 0]

\* The values spec.quota.hard takes in the model.
HardChoices ==
  { EmptyList,
    [r \in {"pods"} |-> 1],
    [r \in {"pods"} |-> 2],
    [r \in {"pods", "services"} |-> 1] }

\* ------------------------------------------- k8s.io/kubernetes/pkg/quota/v1

\* quota.Add: the sum per resource name over the union of the names.
quotaAdd(a, b) ==
  [r \in (DOMAIN a) \cup (DOMAIN b) |->
     (IF r \in DOMAIN a THEN a[r] ELSE 0) + (IF r \in DOMAIN b THEN b[r] ELSE 0)]

\* quota.Mask: the entries of rl whose name is in names.
quotaMask(rl, names) == [r \in (DOMAIN rl) \cap names |-> rl[r]]

\* quota.ResourceNames
ResourceNames(rl) == DOMAIN rl

\* quota.Equals: same length, and every entry of a is in b with an equal value.
quotaEquals(a, b) ==
  /\ Cardinality(DOMAIN a) = Cardinality(DOMAIN b)
  /\ \A r \in DOMAIN a : r \in DOMAIN b /\ a[r] = b[r]

\* apiequality.Semantic.DeepEqual on resource lists: a nil map equals an empty
\* one, quantities compare by value.
SemanticDeepEqual(a, b) ==
  /\ DOMAIN a = DOMAIN b
  /\ \A r \in DOMAIN a : a[r] = b[r]

\* ------------------------------------------------------ persisted objects

\* A map field as the client reads it back.  The fields hard and used of
\* v1.ResourceQuotaStatus are `omitempty`: an empty map is left out when the
\* object is written and is nil when it is read again.
Decoded(rl) == [isNil |-> DOMAIN rl = {}, rl |-> rl]
NilList == [isNil |-> TRUE, rl |-> EmptyList]

\* The status of an AccountQuota nobody has written yet.
EmptyStatus == [hard |-> NilList, used |-> NilList, namespaces |-> <<>>]

\* -------------------------------------------------------- evaluator registry

\* The resource names some evaluator of the registry matches (one evaluator
\* per name).
EvaluatorResources == {"pods", "services"}

\* quota.CalculateUsage for one namespace: the usage the evaluators that match
\* a hard resource report; the resources of an evaluator that fails are left
\* out, and the failure is returned.  objects is what the namespace holds,
\* failing the resources whose evaluator fails in this call.
CalculateUsage(objects, hardLimits, failing) ==
  LET matchedResources == ResourceNames(hardLimits) \cap EvaluatorResources
  IN  [ newUsage |-> [r \in matchedResources \ failing |-> objects[r]],
        err      |-> (matchedResources \cap failing) # {} ]

\* ------------------------------------------------- syncResourceQuota, pieces

\* Lines 382-387: the previous entry of namespace n, when it has a used list.
PreviousUsed(status, n) ==
  LET found == {i \in 1..Len(status.namespaces) :
                  /\ status.namespaces[i].namespace = n
                  /\ ~status.namespaces[i].used.isNil}
      last  == CHOOSE i \in found : \A j \in found : j <= i
  IN  IF found = {} THEN EmptyList
      ELSE quotaAdd(EmptyList, status.namespaces[last].used.rl)

\* Lines 389-391: newUsage written over usedList.  (First the faulty variant
\* that starts every usedList anew and keeps nothing of the previous one.)
OverlayNewUsageOnly(usedList, newUsage) == newUsage
Overlay(usedList, newUsage) ==
  [r \in (DOMAIN usedList) \cup (DOMAIN newUsage) |->
     IF r \in DOMAIN newUsage THEN newUsage[r] ELSE usedList[r]]

\* Lines 382-393: the used list recorded for namespace n.  (First the faulty
\* variant that leaves out the mask of line 393.)
UsedListUnmasked(status, n, newUsage, hardResources) ==
  Overlay(PreviousUsed(status, n), newUsage)
UsedList(status, n, newUsage, hardResources) ==
  quotaMask(Overlay(PreviousUsed(status, n), newUsage), hardResources)

\* Lines 375-402: the loop over the namespaces of the account.  newUsages[n]
\* is what CalculateUsage returned for n.  (First the faulty variant that adds
\* newUsage, not usedList, to totalUsed at line 401.)
RECURSIVE UsageLoopTotalOfNewUsage(_, _, _, _, _, _)
UsageLoopTotalOfNewUsage(status, hardResources, namespaceList, newUsages, used, totalUsed) ==
  IF namespaceList = <<>>
  THEN [used |-> used, totalUsed |-> totalUsed]
  ELSE LET n        == Head(namespaceList)
           usedList == UsedList(status, n, newUsages[n].newUsage, hardResources)
       IN  UsageLoopTotalOfNewUsage(
             status, hardResources, Tail(namespaceList), newUsages,
             Append(used, [namespace |-> n, used |-> usedList]),
             quotaAdd(totalUsed, newUsages[n].newUsage))
\* (And the faulty variant that leaves the loop at the first namespace whose
\* usage could not be calculated.)
RECURSIVE UsageLoopStopsAtError(_, _, _, _, _, _)
UsageLoopStopsAtError(status, hardResources, namespaceList, newUsages, used, totalUsed) ==
  IF namespaceList = <<>> \/ newUsages[Head(namespaceList)].err
  THEN [used |-> used, totalUsed |-> totalUsed]
  ELSE LET n        == Head(namespaceList)
           usedList == UsedList(status, n, newUsages[n].newUsage, hardResources)
       IN  UsageLoopStopsAtError(
             status, hardResources, Tail(namespaceList), newUsages,
             Append(used, [namespace |-> n, used |-> usedList]),
             quotaAdd(totalUsed, usedList))
RECURSIVE UsageLoop(_, _, _, _, _, _)
UsageLoop(status, hardResources, namespaceList, newUsages, used, totalUsed) ==
  IF namespaceList = <<>>
  THEN [used |-> used, totalUsed |-> totalUsed]
  ELSE LET n        == Head(namespaceList)
           usedList == UsedList(status, n, newUsages[n].newUsage, hardResources)
       IN  UsageLoop(status, hardResources, Tail(namespaceList), newUsages,
                     Append(used, [namespace |-> n, used |-> usedList]),
                     quotaAdd(totalUsed, usedList))

\* Lines 404-413: the status of the usage object.  (TotalOfStatusHard is the
\* faulty variant that keeps the hard limits of the previous status.)
TotalOfStatusHard(hardLimits, previous) == previous.hard.rl
TotalHard(hardLimits, previous) == hardLimits
NewStatus(hardLimits, previous, loop) ==
  [ hard       |-> TotalHard(hardLimits, previous),
    used       |-> loop.totalUsed,
    namespaces |-> loop.used ]

\* Lines 353-425 up to the status write: the status computed for accountQuota
\* (a record of its spec hard and its status as read), whether it is dirty,
\* and whether an evaluator failed.
\* (First the faulty variant for which a change of the namespaces listed
\* makes the status dirty.)
syncResourceQuotaDirtyOnNamespaces(specHard, previous, namespaceList, newUsages) ==
  LET hardLimits    == quotaAdd(EmptyList, specHard)
      loop   == UsageLoop(previous, ResourceNames(hardLimits), namespaceList,
                          newUsages, <<>>, EmptyList)
      usage  == NewStatus(hardLimits, previous, loop)
      dirty  == \/ ~SemanticDeepEqual(specHard, previous.hard.rl)
                \/ previous.hard.isNil
                \/ previous.used.isNil
                \/ ~quotaEquals(usage.used, previous.used.rl)
                \/ namespaceList # [i \in 1..Len(previous.namespaces) |->
                                      previous.namespaces[i].namespace]
  IN  [ status |-> usage,
        dirty  |-> dirty,
        errors |-> \E i \in 1..Len(namespaceList) : newUsages[namespaceList[i]].err ]
syncResourceQuota(specHard, previous, namespaceList, newUsages) ==
  LET statusLimitsDirty == ~SemanticDeepEqual(specHard, previous.hard.rl)
      hardLimits    == quotaAdd(EmptyList, specHard)
      hardResources == ResourceNames(hardLimits)
      loop   == UsageLoop(previous, hardResources, namespaceList, newUsages,
                          <<>>, EmptyList)
      usage  == NewStatus(hardLimits, previous, loop)
      dirty  == \/ statusLimitsDirty
                \/ previous.hard.isNil
                \/ previous.used.isNil
                \/ ~quotaEquals(usage.used, previous.used.rl)
  IN  [ status |-> usage,
        dirty  |-> dirty,
        errors |-> \E i \in 1..Len(namespaceList) : newUsages[namespaceList[i]].err ]

\* The status as the client reads it back after client.Status().Update.
Persisted(usage) ==
  [ hard       |-> Decoded(usage.hard),
    used       |-> Decoded(usage.used),
    namespaces |-> [i \in 1..Len(usage.namespaces) |->
                      [ namespace |-> usage.namespaces[i].namespace,
                        used      |-> Decoded(usage.namespaces[i].used) ]] ]

\* ------------------------------------------- k8s.io/client-go/util/workqueue

QueueNames == {"queue", "missingUsageQueue"}

\* A rate limiting queue: the items in order, the dirty and processing sets,
\* the items a delayed add holds back (waiting), the number of failures the
\* rate limiter counts per item (failures), and the shutdown flag.
NewQueue ==
  [ queue        |-> <<>>,
    dirty        |-> {},
    processing   |-> {},
    waiting      |-> {},
    failures     |-> [item \in Quotas |-> 0],
    shuttingDown |-> FALSE ]

\* Add: nothing when shutting down or already dirty; an item being processed
\* is only marked dirty.  (First the faulty variant that queues an item that
\* is being processed.)
queueAddWhileProcessing(Q, item) ==
  IF Q.shuttingDown \/ item \in Q.dirty THEN Q
  ELSE [Q EXCEPT !.dirty = @ \cup {item}, !.queue = Append(@, item)]
queueAdd(Q, item) ==
  IF Q.shuttingDown \/ item \in Q.dirty THEN Q
  ELSE IF item \in Q.processing
       THEN [Q EXCEPT !.dirty = @ \cup {item}]
       ELSE [Q EXCEPT !.dirty = @ \cup {item}, !.queue = Append(@, item)]

\* Add of every item of a sequence, in order.
RECURSIVE queueAddAll(_, _)
queueAddAll(Q, items) ==
  IF items = <<>> THEN Q
  ELSE queueAddAll(queueAdd(Q, Head(items)), Tail(items))

\* Get, when an item is there: the head moves to processing.
queueGet(Q) ==
  [Q EXCEPT !.queue = Tail(@),
            !.processing = @ \cup {Head(Q.queue)},
            !.dirty = @ \ {Head(Q.queue)}]

\* Done: the item leaves processing, and is queued again when it was marked
\* dirty meanwhile.
queueDone(Q, item) ==
  IF item \in Q.dirty
  THEN [Q EXCEPT !.processing = @ \ {item}, !.queue = Append(@, item)]
  ELSE [Q EXCEPT !.processing = @ \ {item}]

\* Forget: the rate limiter stops tracking the item.
queueForget(Q, item) == [Q EXCEPT !.failures[item] = 0]

\* AddRateLimited: the rate limiter counts a failure and the item is added
\* after the delay it gives (nothing when shutting down).
queueAddRateLimited(Q, item) ==
  IF Q.shuttingDown THEN [Q EXCEPT !.failures[item] = @ + 1]
  ELSE [Q EXCEPT !.failures[item] = @ + 1, !.waiting = @ \cup {item}]

\* ShutDown: no further adds, the delayed adds are dropped.
queueShutDown(Q) == [Q EXCEPT !.shuttingDown = TRUE, !.waiting = {}]

\* ------------------------------------------------------------------ state

\* The workers Run starts (lines 323-326): w1 and w2 when workers = 1, and
\* w3 and w4 as well when workers = 2.
Workers == {"w1", "w2", "w3", "w4"}
OneWorkerPerQueue == {"w1", "w2"}
WorkerQueue(w) == IF w \in {"w1", "w3"} THEN "queue" ELSE "missingUsageQueue"

\* The order in which the client lists AccountQuotas.
QuotaOrder == <<"q1", "q2">>
\* A namespace that does not exist.
Absent == "absent"
NoKey == "none"

VARIABLES
  accountQuotas,  \* per AccountQuota: exists, spec.quota.hard, status
  namespaces,     \* per namespace: Absent, or the account it carries
  objects,        \* per namespace and resource: the number of objects in it
  queues,         \* rq.queue and rq.missingUsageQueue
  workers,        \* per worker: where it is in workFunc and what it holds
  workerLock,     \* rq.workerLock: the readers and the writer
  stopCh,         \* whether the stop channel is closed
  runPc,          \* where Run is
  syncPc,         \* where the function Sync repeats is
  oldResources,   \* Sync's remembered set
  monitors,       \* the resources the quota monitor watches
  events,         \* the number of events so far (see MaxEvents)
  lastEvent,      \* the last event: a change of the cluster, a failed call
                  \* or a resync tick
  settled         \* per AccountQuota: reconciled without error since the
                  \* cluster last changed

vars == <<accountQuotas, namespaces, objects, queues, workers, workerLock,
          stopCh, runPc, syncPc, oldResources, monitors, events,
          lastEvent, settled>>

\* The usage object of a worker that has none to write.
NoUsage == [hard |-> EmptyList, used |-> EmptyList, namespaces |-> <<>>]

\* What a worker holds between two items.
IdleWorker ==
  [ pc       |-> "idle",
    key      |-> NoKey,
    usage    |-> NoUsage,
    err      |-> FALSE,
    stale    |-> FALSE,
    fresh    |-> FALSE ]
\* A worker Run does not start.
NoWorker == [IdleWorker EXCEPT !.pc = "none"]

\* client.List of the AccountQuotas of an account, and of all of them.
ListQuotasByAccount(aqs, account) ==
  SelectSeq(QuotaOrder, LAMBDA q : aqs[q].exists /\ SpecAccount(q) = account)
ListQuotas(aqs) == SelectSeq(QuotaOrder, LAMBDA q : aqs[q].exists)

\* client.List of the namespaces that carry an account.
ListNamespaces(nss, account) ==
  SelectSeq(NamespaceOrder, LAMBDA n : nss[n] = account)

\* ---------------------------------------------------------------- handlers

\* enqueueNamespace of a namespace that carries account; listErr: the list of
\* the account's quotas fails.
enqueueNamespace(qs, aqs, account, listErr) ==
  IF account = NoAccount \/ listErr THEN qs
  ELSE [qs EXCEPT !["queue"] = queueAddAll(@, ListQuotasByAccount(aqs, account))]

\* enqueueAll (lines 215-231).  (First the faulty variant that adds the keys
\* to the priority queue.)
enqueueAllOnPriority(qs, aqs, listErr) ==
  IF listErr THEN qs
  ELSE [qs EXCEPT !["missingUsageQueue"] = queueAddAll(@, ListQuotas(aqs))]
enqueueAll(qs, aqs, listErr) ==
  IF listErr THEN qs
  ELSE [qs EXCEPT !["queue"] = queueAddAll(@, ListQuotas(aqs))]

enqueueAccountQuota(qs, key) ==
  [qs EXCEPT !["queue"] = queueAdd(@, key)]

\* The queue addQuota chooses for an AccountQuota.  (First the faulty variant
\* that does not look for constraints without usage, lines 259-269.)
addQuotaTargetByHardOnly(accountQuota) ==
  IF ~SemanticDeepEqual(accountQuota.hard, accountQuota.status.hard.rl)
  THEN "missingUsageQueue"
  ELSE "queue"
addQuotaTarget(accountQuota) ==
  IF ~SemanticDeepEqual(accountQuota.hard, accountQuota.status.hard.rl)
  THEN "missingUsageQueue"
  ELSE IF \E constraint \in DOMAIN accountQuota.status.hard.rl :
            /\ constraint \notin DOMAIN accountQuota.status.used.rl
            /\ constraint \in EvaluatorResources
       THEN "missingUsageQueue"
       ELSE "queue"

addQuota(qs, key, accountQuota) ==
  [qs EXCEPT ![addQuotaTarget(accountQuota)] = queueAdd(@, key)]

\* replenishQuota for a change of an object of groupResource.
RECURSIVE replenishLoop(_, _, _, _)
replenishLoop(qs, aqs, items, groupResource) ==
  IF items = <<>> THEN qs
  ELSE LET accountQuota == aqs[Head(items)]
           accountQuotaResources == ResourceNames(accountQuota.status.hard.rl)
           next == IF accountQuotaResources \cap {groupResource} # {}
                   THEN enqueueAccountQuota(qs, Head(items))
                   ELSE qs
       IN  replenishLoop(next, aqs, Tail(items), groupResource)

\* replenishQuota (lines 428-459).  (First the faulty variant that enqueues
\* every quota of the list.)
replenishQuotaOfAll(qs, aqs, groupResource, listErr) ==
  IF groupResource \notin EvaluatorResources \/ listErr THEN qs
  ELSE [qs EXCEPT !["queue"] = queueAddAll(@, ListQuotas(aqs))]
replenishQuota(qs, aqs, groupResource, listErr) ==
  IF groupResource \notin EvaluatorResources \/ listErr THEN qs
  ELSE replenishLoop(qs, aqs, ListQuotas(aqs), groupResource)

\* UpdateFunc of the AccountQuota informer (lines 140-155).  (First the
\* faulty variant that does not compare the hard limits.)
updateQuotaUnfiltered(qs, key, oldAccountQuota, curAccountQuota) ==
  addQuota(qs, key, curAccountQuota)
updateQuotaDropped(qs, key, oldAccountQuota, curAccountQuota) == qs
updateQuota(qs, key, oldAccountQuota, curAccountQuota) ==
  IF quotaEquals(oldAccountQuota.hard, curAccountQuota.hard) THEN qs
  ELSE addQuota(qs, key, curAccountQuota)

\* ------------------------------------------------------------------ worker

\* The calls that may still fail: a failure is an event.
MayFail == events < MaxEvents
FaultChoice == IF MayFail THEN BOOLEAN ELSE {FALSE}
NoFault == "none"
Fault(call, key) ==
  IF call = NoFault THEN UNCHANGED <<events, lastEvent>>
  ELSE /\ events' = events + 1
       /\ lastEvent' = [op |-> call, object |-> key, account |-> SpecAccount(key)]

\* The evaluator failures a reconcile may meet: none, or the evaluator of one
\* hard resource for one namespace of the list.
FailingChoice(hard, namespaceList) ==
  {{}} \cup
  IF MayFail
  THEN {{<<namespaceList[i], r>>} :
          i \in 1..Len(namespaceList), r \in (DOMAIN hard) \cap EvaluatorResources}
  ELSE {}

\* workerLock.RLock (line 283) blocks while the writer holds the lock or
\* waits for it.
RLockFree == ~workerLock.writer /\ syncPc # "locking"
\* The faulty variant: a worker that does not take the lock.
RLockUnguarded == TRUE
RLockGuard == RLockFree

\* queue.Get (lines 278-281, 297-300): the worker takes the head of its
\* queue and goes on to RLock, which it passes when the lock is free; or,
\* when the queue is empty and shut down, it quits.  It blocks otherwise.
WorkerGet(w) ==
  LET Q == queues[WorkerQueue(w)]
  IN  /\ workers[w].pc = "idle"
      /\ \/ /\ Q.queue # <<>>
            /\ queues' = [queues EXCEPT ![WorkerQueue(w)] = queueGet(Q)]
            /\ IF RLockGuard
               THEN /\ workers' = [workers EXCEPT ![w] =
                         [IdleWorker EXCEPT !.pc = "locked", !.key = Head(Q.queue)]]
                    /\ workerLock' = [workerLock EXCEPT !.readers = @ \cup {w}]
               ELSE /\ workers' = [workers EXCEPT ![w] =
                         [IdleWorker EXCEPT !.pc = "got", !.key = Head(Q.queue)]]
                    /\ UNCHANGED workerLock
         \/ /\ Q.queue = <<>>
            /\ Q.shuttingDown
            /\ workers' = [workers EXCEPT ![w] =
                 [IdleWorker EXCEPT !.pc = "terminated"]]
            /\ UNCHANGED <<queues, workerLock>>
      /\ UNCHANGED <<accountQuotas, namespaces, objects, stopCh, runPc, syncPc,
                     oldResources, monitors, events, lastEvent, settled>>

\* A worker that found the lock taken passes RLock once the lock is free.
WorkerRLock(w) ==
  /\ workers[w].pc = "got"
  /\ RLockGuard
  /\ workerLock' = [workerLock EXCEPT !.readers = @ \cup {w}]
  /\ workers' = [workers EXCEPT ![w].pc = "locked"]
  /\ UNCHANGED <<accountQuotas, namespaces, objects, queues, stopCh, runPc,
                 syncPc, oldResources, monitors, events, lastEvent, settled>>

\* The end of workFunc once syncHandler has returned (lines 286-292 and the
\* deferred calls): Forget or AddRateLimited, then RUnlock, then Done.
\* ws: the workers as the step leaves the others; err: syncHandler's result.
\* (First two faulty variants: one that calls Forget after an error too, and
\* one that calls Done only when syncHandler returned nil.)
workFuncEndForgets(Q, key, err) ==
  queueDone(queueForget(IF err THEN queueAddRateLimited(Q, key) ELSE Q, key), key)
workFuncEndDoneOnSuccess(Q, key, err) ==
  IF err THEN queueAddRateLimited(Q, key) ELSE queueDone(queueForget(Q, key), key)
workFuncEnd(Q, key, err) ==
  queueDone(IF err THEN queueAddRateLimited(Q, key) ELSE queueForget(Q, key), key)

\* qs: the queues as the calls made before the end have left them.
WorkFuncReturnsWith(qs, w, ws, err) ==
  /\ queues' = [qs EXCEPT ![WorkerQueue(w)] =
                  workFuncEnd(@, workers[w].key, err)]
  /\ workerLock' = [workerLock EXCEPT !.readers = @ \ {w}]
  /\ workers' = [ws EXCEPT ![w] = IdleWorker]

WorkFuncReturns(w, ws, err) == WorkFuncReturnsWith(queues, w, ws, err)

\* syncResourceQuotaFromKey (lines 339-349): what client.Get leads to.  A key
\* whose object is not found is done with ("deleted"), any other error is
\* returned ("error"), and an object that is found is reconciled ("sync").
\* (First the faulty variant that returns the not-found error.)
NotFoundIsReturned(exists, getErr) ==
  IF getErr \/ ~exists THEN "error" ELSE "sync"
syncResourceQuotaFromKey(exists, getErr) ==
  IF getErr THEN "error" ELSE IF ~exists THEN "deleted" ELSE "sync"

\* syncHandler up to the status write (lines 333-418): client.Get, the list
\* of the namespaces, the usage of each and the decision to write; when
\* nothing is to be written, syncHandler returns and workFunc ends.
\* apiErr: the call of the client that fails; failing: the pairs of a
\* namespace and a resource whose evaluator fails.
WorkerSync(w) ==
  /\ workers[w].pc = "locked"
  /\ LET key           == workers[w].key
         accountQuota  == accountQuotas[key]
         namespaceList == ListNamespaces(namespaces, SpecAccount(key))
     IN
     \E apiErr \in {"none"} \cup (IF MayFail THEN {"get", "list"} ELSE {}),
        failing \in FailingChoice(accountQuota.hard, namespaceList) :
       LET newUsages == [n \in Namespaces |->
                           CalculateUsage(objects[n], accountQuota.hard,
                                          {r \in Resources : <<n, r>> \in failing})]
           r == syncResourceQuota(accountQuota.hard, accountQuota.status,
                                  namespaceList, newUsages)
           got == syncResourceQuotaFromKey(accountQuota.exists, apiErr = "get")
       IN  IF got = "error"
           THEN /\ failing = {} /\ apiErr # "list"
                /\ WorkFuncReturns(w, workers, TRUE)
                /\ Fault(IF apiErr = "get" THEN "getFailed" ELSE NoFault, key)
                /\ UNCHANGED settled
           ELSE IF got = "deleted"
           THEN /\ failing = {} /\ apiErr = "none"
                /\ WorkFuncReturns(w, workers, FALSE)
                /\ Fault(NoFault, key)
                /\ UNCHANGED settled
           ELSE IF apiErr = "list"
           THEN /\ failing = {}
                /\ WorkFuncReturns(w, workers, TRUE)
                /\ Fault("listFailed", key)
                /\ UNCHANGED settled
           ELSE IF r.dirty
           THEN /\ workers' = [workers EXCEPT ![w] =
                     [ pc    |-> "update",
                       key   |-> key,
                       usage |-> r.status,
                       err   |-> r.errors,
                       stale |-> FALSE,
                       fresh |-> TRUE ]]
                /\ Fault(IF failing # {} THEN "evaluatorFailed" ELSE NoFault, key)
                /\ UNCHANGED <<queues, workerLock, settled>>
           ELSE /\ WorkFuncReturns(w, workers, r.errors)
                /\ Fault(IF failing # {} THEN "evaluatorFailed" ELSE NoFault, key)
                /\ settled' = IF r.errors THEN settled
                              ELSE [settled EXCEPT ![key] = TRUE]
  /\ UNCHANGED <<accountQuotas, namespaces, objects, stopCh, runPc, syncPc,
                 oldResources, monitors>>

\* Every other worker that read the AccountQuota key before it changed holds
\* an old resource version.
Outdated(ws, key) ==
  [v \in Workers |->
     IF ws[v].key = key /\ ws[v].pc = "update"
     THEN [ws[v] EXCEPT !.stale = TRUE] ELSE ws[v]]

\* client.Status().Update (lines 418-424) and the end of workFunc.  The update
\* fails on an old resource version, on a deleted object, or because the
\* call fails (updateErr).  An update that succeeds is an update event of
\* the AccountQuota informer: UpdateFunc is called with the object as it was
\* and as it is.
WorkerUpdate(w) ==
  /\ workers[w].pc = "update"
  /\ \E updateErr \in FaultChoice :
       LET key == workers[w].key
       IN  /\ Fault(IF updateErr THEN "updateFailed" ELSE NoFault, key)
           /\ IF updateErr \/ workers[w].stale \/ ~accountQuotas[key].exists
              THEN /\ WorkFuncReturns(w, workers, TRUE)
                   /\ UNCHANGED <<accountQuotas, settled>>
              ELSE /\ accountQuotas' = [accountQuotas EXCEPT
                        ![key].status = Persisted(workers[w].usage)]
                   /\ WorkFuncReturnsWith(
                        updateQuota(queues, key, accountQuotas[key],
                                    accountQuotas'[key]),
                        w, Outdated(workers, key), workers[w].err)
                   /\ settled' = [settled EXCEPT
                        ![key] = workers[w].fresh /\ ~workers[w].err]
  /\ UNCHANGED <<namespaces, objects, stopCh, runPc, syncPc, oldResources,
                 monitors>>

\* The delay of an AddRateLimited is over: the item is added.
DelayedAdd(name, key) ==
  /\ key \in queues[name].waiting
  /\ queues' = [queues EXCEPT ![name] =
       queueAdd([@ EXCEPT !.waiting = @ \ {key}], key)]
  /\ UNCHANGED <<accountQuotas, namespaces, objects, workers, workerLock, stopCh,
                 runPc, syncPc, oldResources, monitors, events, lastEvent,
                 settled>>

\* --------------------------------------------------------------------- Run

\* The caller closes the stop channel.
Stop ==
  /\ ~stopCh
  /\ stopCh' = TRUE
  /\ UNCHANGED <<accountQuotas, namespaces, objects, queues, workers, workerLock,
                 runPc, syncPc, oldResources, monitors, events, lastEvent,
                 settled>>

\* Run returns once the stop channel is closed (line 329); its deferred call
\* shuts rq.queue down (line 308).
RunShutDown(qs) == [qs EXCEPT !["queue"] = queueShutDown(@)]

RunReturn ==
  /\ runPc = "running"
  /\ stopCh
  /\ queues' = RunShutDown(queues)
  /\ runPc' = "returned"
  /\ UNCHANGED <<accountQuotas, namespaces, objects, workers, workerLock, stopCh,
                 syncPc, oldResources, monitors, events, lastEvent, settled>>

\* The full resync timer of Run fires (line 328): enqueueAll.
ResyncTick ==
  /\ runPc = "running"
  /\ ~stopCh
  /\ events < MaxEvents
  /\ events' = events + 1
  /\ \E listErr \in BOOLEAN :
       /\ queues' = enqueueAll(queues, accountQuotas, listErr)
       /\ lastEvent' = [ op      |-> IF listErr THEN "resyncListFailed" ELSE "resync",
                         object  |-> "",
                         account |-> NoAccount ]
  /\ UNCHANGED <<accountQuotas, namespaces, objects, workers, workerLock, stopCh,
                 runPc, syncPc, oldResources, monitors, settled>>

\* -------------------------------------------------------------------- Sync

\* GetQuotableResources (lines 565-582): pods only, and no error.
GetQuotableResources == [resources |-> {"pods"}, err |-> FALSE]

\* A tick of Sync that finds a set other than the remembered one goes for
\* the write lock (lines 467-490).  A tick that finds the same set returns.
SyncTick ==
  /\ syncPc = "idle"
  /\ ~stopCh
  /\ ~GetQuotableResources.err
  /\ GetQuotableResources.resources # oldResources
  /\ syncPc' = "locking"
  /\ UNCHANGED <<accountQuotas, namespaces, objects, queues, workers, workerLock,
                 stopCh, runPc, oldResources, monitors, events, lastEvent,
                 settled>>

\* workerLock.Lock (line 490): waits until no reader holds the lock.
SyncLock ==
  /\ syncPc = "locking"
  /\ workerLock.readers = {}
  /\ ~workerLock.writer
  /\ workerLock' = [workerLock EXCEPT !.writer = TRUE]
  /\ syncPc' = "locked"
  /\ UNCHANGED <<accountQuotas, namespaces, objects, queues, workers, stopCh,
                 runPc, oldResources, monitors, events, lastEvent, settled>>

\* resyncMonitors (lines 499-502, 550-559): on an error the tick ends and the
\* deferred Unlock runs; the monitors are then as they were (the set last
\* passed to a call of SyncMonitors that returned no error).
\* (First two faulty variants: one that goes on after an error, and one that
\* unlocks before the wait for the caches.)
SyncResyncMonitorsIgnoresError ==
  /\ syncPc = "locked"
  /\ \E err \in BOOLEAN :
       monitors' = IF err THEN monitors ELSE GetQuotableResources.resources
  /\ syncPc' = "waiting"
  /\ UNCHANGED <<accountQuotas, namespaces, objects, queues, workers, workerLock,
                 stopCh, runPc, oldResources, events, lastEvent, settled>>

SyncResyncMonitorsThenUnlock ==
  /\ syncPc = "locked"
  /\ \E err \in BOOLEAN :
       IF err
       THEN /\ syncPc' = "idle"
            /\ UNCHANGED monitors
       ELSE /\ syncPc' = "waiting"
            /\ monitors' = GetQuotableResources.resources
  /\ workerLock' = [workerLock EXCEPT !.writer = FALSE]
  /\ UNCHANGED <<accountQuotas, namespaces, objects, queues, workers, stopCh,
                 runPc, oldResources, events, lastEvent, settled>>

SyncResyncMonitors ==
  /\ syncPc = "locked"
  /\ \E err \in BOOLEAN :
       IF err
       THEN /\ syncPc' = "idle"
            /\ workerLock' = [workerLock EXCEPT !.writer = FALSE]
            /\ UNCHANGED monitors
       ELSE /\ syncPc' = "waiting"
            /\ monitors' = GetQuotableResources.resources
            /\ UNCHANGED workerLock
  /\ UNCHANGED <<accountQuotas, namespaces, objects, queues, workers, stopCh,
                 runPc, oldResources, events, lastEvent, settled>>

\* cache.WaitForNamedCacheSync (line 507) returns: the caches have synced, or
\* the period is over or the stop channel closed (waitForStopOrTimeout,
\* lines 536-546) before they have.
SyncWait ==
  /\ syncPc = "waiting"
  /\ \E synced \in BOOLEAN : syncPc' = IF synced THEN "synced" ELSE "timedOut"
  /\ UNCHANGED <<accountQuotas, namespaces, objects, queues, workers, workerLock,
                 stopCh, runPc, oldResources, monitors, events, lastEvent,
                 settled>>

\* The tick returns (lines 508-514): after a wait that timed out right away,
\* after a wait that succeeded once the set is remembered; the deferred
\* Unlock runs either way.
\* (First two faulty variants: one that remembers the set after a timeout
\* too, and one that does not unlock after a timeout.)
SyncReturnRemembersAlways ==
  /\ syncPc \in {"synced", "timedOut"}
  /\ oldResources' = GetQuotableResources.resources
  /\ syncPc' = "idle"
  /\ workerLock' = [workerLock EXCEPT !.writer = FALSE]
  /\ UNCHANGED <<accountQuotas, namespaces, objects, queues, workers, stopCh,
                 runPc, monitors, events, lastEvent, settled>>

SyncReturn ==
  /\ syncPc \in {"synced", "timedOut"}
  /\ oldResources' = IF syncPc = "synced" THEN GetQuotableResources.resources
                     ELSE oldResources
  /\ syncPc' = "idle"
  /\ workerLock' = [workerLock EXCEPT !.writer = FALSE]
  /\ UNCHANGED <<accountQuotas, namespaces, objects, queues, workers, stopCh,
                 runPc, monitors, events, lastEvent, settled>>

\* ------------------------------------------------------ the cluster changes

\* A change of the cluster: no reconcile that read before it is a reconcile
\* of the cluster as it is now.  failed: the handler's list call fails.
NoneSettled == [q \in Quotas |-> FALSE]
Unfresh(ws) == [w \in Workers |-> [ws[w] EXCEPT !.fresh = FALSE]]
CanChange == ~stopCh /\ events < MaxEvents

Changed(event, failed) ==
  /\ events' = events + 1
  /\ lastEvent' = event
  /\ settled' = NoneSettled

NoEvent == [op |-> "none", object |-> "", account |-> ""]

\* An AccountQuota is created; the informer calls AddFunc = addQuota
\* (line 139).
CreateQuota(q, hard) ==
  /\ CanChange
  /\ ~accountQuotas[q].exists
  /\ accountQuotas' = [accountQuotas EXCEPT
       ![q] = [exists |-> TRUE, hard |-> hard, status |-> EmptyStatus]]
  /\ queues' = addQuota(queues, q, accountQuotas'[q])
  /\ workers' = Unfresh(Outdated(workers, q))
  /\ Changed([op |-> "createQuota", object |-> q, account |-> SpecAccount(q)],
             FALSE)
  /\ UNCHANGED <<namespaces, objects, workerLock, stopCh, runPc, syncPc,
                 oldResources, monitors>>

\* An AccountQuota is updated by a user: spec.quota.hard becomes hard (which
\* may be the value it has, when the update is to another field).
UpdateQuota(q, hard) ==
  /\ CanChange
  /\ accountQuotas[q].exists
  /\ accountQuotas' = [accountQuotas EXCEPT ![q].hard = hard]
  /\ queues' = updateQuota(queues, q, accountQuotas[q], accountQuotas'[q])
  /\ workers' = Unfresh(Outdated(workers, q))
  /\ Changed([op |-> "updateQuota", object |-> q, account |-> SpecAccount(q)],
             FALSE)
  /\ UNCHANGED <<namespaces, objects, workerLock, stopCh, runPc, syncPc,
                 oldResources, monitors>>

\* An AccountQuota is deleted; DeleteFunc = enqueueAccountQuota (line 159).
DeleteQuota(q) ==
  /\ CanChange
  /\ accountQuotas[q].exists
  /\ accountQuotas' = [accountQuotas EXCEPT
       ![q] = [exists |-> FALSE, hard |-> EmptyList, status |-> EmptyStatus]]
  /\ queues' = enqueueAccountQuota(queues, q)
  /\ workers' = Unfresh(Outdated(workers, q))
  /\ Changed([op |-> "deleteQuota", object |-> q, account |-> SpecAccount(q)],
             FALSE)
  /\ UNCHANGED <<namespaces, objects, workerLock, stopCh, runPc, syncPc,
                 oldResources, monitors>>

\* A namespace is created; AddFunc = enqueueNamespace (line 114).
CreateNamespace(n, account) ==
  /\ CanChange
  /\ namespaces[n] = Absent
  /\ namespaces' = [namespaces EXCEPT ![n] = account]
  /\ workers' = Unfresh(workers)
  /\ \E listErr \in (IF account = NoAccount THEN {FALSE} ELSE FaultChoice) :
       /\ queues' = enqueueNamespace(queues, accountQuotas, account, listErr)
       /\ Changed([op |-> IF listErr THEN "createNamespaceListFailed"
                          ELSE "createNamespace",
                   object |-> n, account |-> account], listErr)
  /\ UNCHANGED <<accountQuotas, objects, workerLock, stopCh, runPc, syncPc,
                 oldResources, monitors>>

\* UpdateFunc of the namespace informer (lines 115-125); listErr: the list
\* call that fails, of the old account's quotas or of the new one's.
\* (First the faulty variant that enqueues for the new account only.)
updateNamespaceNewOnly(qs, aqs, oldAccount, newAccount, listErr) ==
  IF oldAccount = newAccount THEN qs
  ELSE enqueueNamespace(qs, aqs, newAccount, listErr = "new")
updateNamespace(qs, aqs, oldAccount, newAccount, listErr) ==
  IF oldAccount = newAccount THEN qs
  ELSE enqueueNamespace(enqueueNamespace(qs, aqs, oldAccount, listErr = "old"),
                        aqs, newAccount, listErr = "new")

\* A namespace is updated: its account is changed, removed (account =
\* NoAccount) or left as it is (the update is to another field).  A list
\* call can fail only where the handler makes it.
UpdateNamespace(n, account) ==
  /\ CanChange
  /\ namespaces[n] # Absent
  /\ namespaces' = [namespaces EXCEPT ![n] = account]
  /\ workers' = Unfresh(workers)
  /\ \E listErr \in {"none"} \cup
         (IF MayFail /\ namespaces[n] # account
          THEN {c \in {"old", "new"} :
                  (IF c = "old" THEN namespaces[n] ELSE account) # NoAccount}
          ELSE {}) :
       /\ queues' = updateNamespace(queues, accountQuotas, namespaces[n], account,
                                    listErr)
       /\ Changed([op |-> IF listErr = "old" THEN "updateNamespaceOldListFailed"
                          ELSE IF listErr = "new" THEN "updateNamespaceNewListFailed"
                          ELSE "updateNamespace",
                   object |-> n, account |-> namespaces[n]], listErr # "none")
  /\ UNCHANGED <<accountQuotas, objects, workerLock, stopCh, runPc, syncPc,
                 oldResources, monitors>>

\* A namespace is deleted, and the objects in it with it; DeleteFunc =
\* enqueueNamespace (line 126).
DeleteNamespace(n) ==
  /\ CanChange
  /\ namespaces[n] # Absent
  /\ namespaces' = [namespaces EXCEPT ![n] = Absent]
  /\ objects' = [objects EXCEPT ![n] = [r \in Resources |-> 0]]
  /\ workers' = Unfresh(workers)
  /\ \E listErr \in (IF namespaces[n] = NoAccount THEN {FALSE} ELSE FaultChoice) :
       /\ queues' = enqueueNamespace(queues, accountQuotas, namespaces[n], listErr)
       /\ Changed([op |-> IF listErr THEN "deleteNamespaceListFailed"
                          ELSE "deleteNamespace",
                   object |-> n, account |-> namespaces[n]], listErr)
  /\ UNCHANGED <<accountQuotas, workerLock, stopCh, runPc, syncPc, oldResources,
                 monitors>>

\* The number of objects of a resource in a namespace changes; when the
\* resource is monitored, the quota monitor calls replenishQuota.
ChangeObjects(n, resource, count) ==
  /\ CanChange
  /\ namespaces[n] # Absent
  /\ objects[n][resource] # count
  /\ objects' = [objects EXCEPT ![n][resource] = count]
  /\ workers' = Unfresh(workers)
  /\ \E listErr \in (IF resource \in monitors \cap EvaluatorResources
                      THEN FaultChoice ELSE {FALSE}) :
       /\ queues' = IF resource \in monitors
                    THEN replenishQuota(queues, accountQuotas, resource, listErr)
                    ELSE queues
       /\ Changed([op |-> IF listErr THEN "changeObjectsListFailed"
                          ELSE "changeObjects",
                   object |-> n, account |-> namespaces[n]], listErr)
  /\ UNCHANGED <<accountQuotas, namespaces, workerLock, stopCh, runPc, syncPc,
                 oldResources, monitors>>

\* ---------------------------------------------------------- specification

\* The clusters the controller starts on.  q1 (account a) declares pods and
\* services; q2 (account b), when it exists, declares pods and has no
\* namespace.  n1 carries account a and holds one pod; n2, when it exists,
\* carries account a and is empty.  The informers have delivered the add of
\* every object, and the constructor has set the monitors up.
InitQuotas(present) ==
  [q \in Quotas |->
     IF q \in present
     THEN [ exists |-> TRUE,
            hard   |-> IF q = "q1" THEN [r \in {"pods", "services"} |-> 1]
                       ELSE [r \in {"pods"} |-> 2],
            status |-> EmptyStatus ]
     ELSE [ exists |-> FALSE, hard |-> EmptyList, status |-> EmptyStatus ]]

RECURSIVE InitQuotaAdds(_, _, _)
InitQuotaAdds(qs, aqs, order) ==
  IF order = <<>> THEN qs
  ELSE InitQuotaAdds(
         IF aqs[Head(order)].exists
         THEN addQuota(qs, Head(order), aqs[Head(order)]) ELSE qs,
         aqs, Tail(order))

RECURSIVE InitNamespaceAdds(_, _, _, _)
InitNamespaceAdds(qs, aqs, nss, order) ==
  IF order = <<>> THEN qs
  ELSE InitNamespaceAdds(
         IF nss[Head(order)] = Absent THEN qs
         ELSE enqueueNamespace(qs, aqs, nss[Head(order)], FALSE),
         aqs, nss, Tail(order))

InitQueues(aqs, nss) ==
  InitNamespaceAdds(
    InitQuotaAdds([name \in QueueNames |-> NewQueue], aqs, QuotaOrder),
    aqs, nss, NamespaceOrder)

\* clusters: triples of n2's account (or Absent), the set of quotas, and
\* whether the constructor's call of SyncMonitors (line 182) succeeded: the
\* monitors are then those of GetQuotableResources, and none otherwise.
\* started: the workers Run has started.
InitWith(clusters, started) ==
  /\ \E cluster \in clusters :
       /\ accountQuotas = InitQuotas(cluster[2])
       /\ namespaces =
            [n \in Namespaces |-> IF n = "n1" THEN "a" ELSE cluster[1]]
       /\ monitors = IF cluster[3] THEN GetQuotableResources.resources ELSE {}
  /\ objects = [n \in Namespaces |-> [r \in Resources |->
                  IF n = "n1" /\ r = "pods" THEN 1 ELSE 0]]
  /\ queues = InitQueues(accountQuotas, namespaces)
  /\ workers = [w \in Workers |-> IF w \in started THEN IdleWorker ELSE NoWorker]
  /\ workerLock = [readers |-> {}, writer |-> FALSE]
  /\ stopCh = FALSE
  /\ runPc = "running"
  /\ syncPc = "idle"
  /\ oldResources = {}
  /\ events = 0
  /\ lastEvent = NoEvent
  /\ settled = NoneSettled

Init ==
  InitWith({<<Absent, Quotas, TRUE>>, <<"a", {"q1"}, TRUE>>}, OneWorkerPerQueue)
LifecycleInit ==
  InitWith({<<"a", Quotas, TRUE>>, <<"a", Quotas, FALSE>>}, OneWorkerPerQueue)
TwoWorkersInit == InitWith({<<"a", Quotas, TRUE>>}, Workers)

\* The steps of the workers and of the queues' timers.
WorkerStep ==
  \/ \E w \in Workers : WorkerGet(w)
  \/ \E w \in Workers : WorkerSync(w)
  \/ \E w \in Workers : WorkerUpdate(w)
  \/ \E name \in QueueNames, key \in Quotas : DelayedAdd(name, key)

\* The changes of the cluster.
ClusterStep ==
  \/ \E q \in Quotas, hard \in HardChoices : CreateQuota(q, hard)
  \/ \E q \in Quotas, hard \in HardChoices : UpdateQuota(q, hard)
  \/ \E q \in Quotas : DeleteQuota(q)
  \/ \E n \in Namespaces, account \in Accounts \cup {NoAccount} :
       CreateNamespace(n, account)
  \/ \E n \in Namespaces, account \in Accounts \cup {NoAccount} :
       UpdateNamespace(n, account)
  \/ \E n \in Namespaces : DeleteNamespace(n)
  \/ \E n \in Namespaces, resource \in Resources, count \in 0..MaxUsage :
       ChangeObjects(n, resource, count)

\* The steps of Sync and of Run's shutdown.
LifecycleStep ==
  \/ \E w \in Workers : WorkerRLock(w)
  \/ Stop
  \/ RunReturn
  \/ SyncTick
  \/ SyncLock
  \/ SyncResyncMonitors
  \/ SyncWait
  \/ SyncReturn

\* The controller running on a cluster that changes: Run has started the
\* workers and the resync timer, the stop channel stays open and nobody has
\* called Sync.
Next == WorkerStep \/ ResyncTick \/ ClusterStep
Spec == Init /\ [][Next]_vars

\* The controller running under fair scheduling while users change the hard
\* limits of the quotas: the worker goroutines Run has started (wait.Until,
\* lines 316-321) and the timers of the delaying queues keep taking their
\* steps while they have one to take.  The failures of API calls are events,
\* so that the calls end up succeeding.
FairNext == WorkerStep \/ \E q \in Quotas, hard \in HardChoices : UpdateQuota(q, hard)
FairSpec == Init /\ [][FairNext]_vars /\ WF_vars(WorkerStep)

\* The controller from start to shutdown, with the Sync loop, on a cluster
\* that does not change.
LifecycleNext == WorkerStep \/ ResyncTick \/ LifecycleStep
LifecycleSpec == LifecycleInit /\ [][LifecycleNext]_vars

\* addQuota on its own: the informer delivers the add of an AccountQuota
\* whose spec and status are any of the lists below (a resource no evaluator
\* matches among them), to a controller whose queues are empty.
UnmatchedResource == "unmatched"
AddQuotaLists ==
  UNION {[rs -> 0..MaxUsage] : rs \in SUBSET {"pods", UnmatchedResource}}

AddQuotaInit ==
  /\ \E hard \in AddQuotaLists, statusHard \in AddQuotaLists,
        statusUsed \in AddQuotaLists :
       accountQuotas =
         [q \in Quotas |->
            IF q = "q1"
            THEN [ exists |-> TRUE,
                   hard   |-> hard,
                   status |-> [ hard       |-> Decoded(statusHard),
                                used       |-> Decoded(statusUsed),
                                namespaces |-> <<>> ] ]
            ELSE [ exists |-> FALSE, hard |-> EmptyList, status |-> EmptyStatus ]]
  /\ namespaces = [n \in Namespaces |-> Absent]
  /\ objects = [n \in Namespaces |-> [r \in Resources |-> 0]]
  /\ queues = [name \in QueueNames |-> NewQueue]
  /\ workers = [w \in Workers |-> NoWorker]
  /\ workerLock = [readers |-> {}, writer |-> FALSE]
  /\ stopCh = FALSE
  /\ runPc = "running"
  /\ syncPc = "idle"
  /\ oldResources = {}
  /\ monitors = GetQuotableResources.resources
  /\ events = 0
  /\ lastEvent = NoEvent
  /\ settled = NoneSettled

AddQuotaCall(q) ==
  /\ lastEvent = NoEvent
  /\ accountQuotas[q].exists
  /\ queues' = addQuota(queues, q, accountQuotas[q])
  /\ lastEvent' = [op |-> "addQuota", object |-> q, account |-> SpecAccount(q)]
  /\ UNCHANGED <<accountQuotas, namespaces, objects, workers, workerLock, stopCh,
                 runPc, syncPc, oldResources, monitors, events, settled>>

AddQuotaNext == \E q \in Quotas : AddQuotaCall(q)
AddQuotaSpec == AddQuotaInit /\ [][AddQuotaNext]_vars

\* A reconcile on its own: quota q1, of the account of both namespaces, is on
\* the primary queue with a stored status that is any the controller may have
\* written earlier: for any hard limits of that time, with entries for none,
\* one or both namespaces whose resources are among those limits (a resource
\* that no evaluator scores any more among them) and the total of the
\* entries.
ReconcileHards ==
  {[r \in rs |-> 1] : rs \in {{"pods"}, {"pods", UnmatchedResource}}}

StoredEntry(n, used) == [namespace |-> n, used |-> Decoded(used)]

StoredEntries ==
  {<<>>}
  \cup {<<StoredEntry("n1", u1)>> : u1 \in AddQuotaLists}
  \cup {<<StoredEntry("n1", u1), StoredEntry("n2", u2)>> :
          u1 \in AddQuotaLists, u2 \in {EmptyList, [r \in {"pods"} |-> 0]}}

RECURSIVE StoredTotal(_)
StoredTotal(entries) ==
  IF entries = <<>> THEN EmptyList
  ELSE quotaAdd(Head(entries).used.rl, StoredTotal(Tail(entries)))

ReconcileInit ==
  /\ \E hard \in ReconcileHards, statusHard \in ReconcileHards,
        entries \in StoredEntries, written \in BOOLEAN :
       /\ written \/ entries = <<>>
       /\ \A i \in 1..Len(entries) :
            DOMAIN entries[i].used.rl \subseteq DOMAIN statusHard
       /\ accountQuotas =
            [q \in Quotas |->
               IF q = "q1"
               THEN [ exists |-> TRUE,
                      hard   |-> hard,
                      status |-> IF written
                                 THEN [ hard       |-> Decoded(statusHard),
                                        used       |-> Decoded(StoredTotal(entries)),
                                        namespaces |-> entries ]
                                 ELSE EmptyStatus ]
               ELSE [ exists |-> FALSE, hard |-> EmptyList, status |-> EmptyStatus ]]
  /\ namespaces = [n \in Namespaces |-> "a"]
  /\ \E pods \in 0..MaxUsage :
       objects = [n \in Namespaces |-> [r \in Resources |->
                    IF n = "n1" /\ r = "pods" THEN pods ELSE 0]]
  /\ queues = enqueueAccountQuota([name \in QueueNames |-> NewQueue], "q1")
  /\ workers = [w \in Workers |->
                  IF w \in OneWorkerPerQueue THEN IdleWorker ELSE NoWorker]
  /\ workerLock = [readers |-> {}, writer |-> FALSE]
  /\ stopCh = FALSE
  /\ runPc = "running"
  /\ syncPc = "idle"
  /\ oldResources = {}
  /\ monitors = GetQuotableResources.resources
  /\ events = 0
  /\ lastEvent = NoEvent
  /\ settled = NoneSettled

ReconcileNext == WorkerStep
ReconcileSpec == ReconcileInit /\ [][ReconcileNext]_vars

\* replenishQuota on its own: the quota monitor reports a change of an
\* object of any resource (one without an evaluator among them) in any
\* namespace, to a controller whose queues are empty and whose quotas, of
\* account a and of account b, have any of the lists below as the hard limits
\* of their status.  Namespace n2 belongs to no account.
ReplenishResources == EvaluatorResources \cup {UnmatchedResource}

ReplenishInit ==
  /\ \E present \in {{"q1"}, Quotas}, hard1 \in AddQuotaLists,
        hard2 \in {EmptyList, [r \in {"services"} |-> 1]} :
       accountQuotas =
         [q \in Quotas |->
            IF q \in present
            THEN [ exists |-> TRUE,
                   hard   |-> [r \in {"pods", "services"} |-> 1],
                   status |-> [ hard       |-> Decoded(IF q = "q1" THEN hard1 ELSE hard2),
                                used       |-> NilList,
                                namespaces |-> <<>> ] ]
            ELSE [ exists |-> FALSE, hard |-> EmptyList, status |-> EmptyStatus ]]
  /\ namespaces = [n \in Namespaces |-> IF n = "n1" THEN "a" ELSE NoAccount]
  /\ objects = [n \in Namespaces |-> [r \in Resources |-> 0]]
  /\ queues = [name \in QueueNames |-> NewQueue]
  /\ workers = [w \in Workers |-> NoWorker]
  /\ workerLock = [readers |-> {}, writer |-> FALSE]
  /\ stopCh = FALSE
  /\ runPc = "running"
  /\ syncPc = "idle"
  /\ oldResources = {}
  /\ monitors = GetQuotableResources.resources
  /\ events = 0
  /\ lastEvent = NoEvent
  /\ settled = NoneSettled

\* The list of the quotas can fail only when it is made (line 437).
ReplenishCall(groupResource, n) ==
  /\ lastEvent = NoEvent
  /\ \E listErr \in (IF groupResource \in EvaluatorResources
                      THEN BOOLEAN ELSE {FALSE}) :
       /\ queues' = replenishQuota(queues, accountQuotas, groupResource, listErr)
       /\ lastEvent' = [ op      |-> IF listErr THEN "replenishQuotaListFailed"
                                     ELSE "replenishQuota",
                         object  |-> groupResource,
                         account |-> namespaces[n] ]
  /\ UNCHANGED <<accountQuotas, namespaces, objects, workers, workerLock, stopCh,
                 runPc, syncPc, oldResources, monitors, events, settled>>

ReplenishNext ==
  \E groupResource \in ReplenishResources, n \in Namespaces :
    ReplenishCall(groupResource, n)
ReplenishSpec == ReplenishInit /\ [][ReplenishNext]_vars

\* The controller with two workers per queue, on a cluster that does not
\* change.
TwoWorkersNext == WorkerStep \/ ResyncTick
TwoWorkersSpec == TwoWorkersInit /\ [][TwoWorkersNext]_vars

\* ------------------------------------------------------------- properties

\* The names of the namespaces a status lists.
StatusNamespaces(status) ==
  {status.namespaces[i].namespace : i \in 1..Len(status.namespaces)}

\* The resource names that appear in a status' used lists.
StatusUsedNames(status) ==
  (DOMAIN status.used.rl) \cup
  UNION {DOMAIN status.namespaces[i].used.rl : i \in 1..Len(status.namespaces)}

\* The amount of resource r the entries of a status record, summed.
RECURSIVE SumOfEntries(_, _)
SumOfEntries(entries, r) ==
  IF entries = <<>> THEN 0
  ELSE (IF r \in DOMAIN Head(entries).used.rl THEN Head(entries).used.rl[r] ELSE 0)
       + SumOfEntries(Tail(entries), r)

\* The worker w ends an item in this step, and syncHandler returned nil (the
\* item is forgotten) or an error (the item is rate limited).
Returns(w) ==
  /\ workers[w].pc \in {"locked", "update"}
  /\ workers'[w].pc = "idle"
ReturnsNil(w) ==
  /\ Returns(w)
  /\ queues'[WorkerQueue(w)].failures[workers[w].key] = 0

\* C1: in every persisted status, for every resource name, total.used holds
\* the name exactly when some entry of status.namespaces does, and its
\* quantity is the sum of the entries' quantities.
C1_TotalUsedIsSum ==
  \A q \in Quotas, r \in Resources :
    LET status == accountQuotas[q].status
    IN  /\ (r \in DOMAIN status.used.rl) <=>
             (\E i \in 1..Len(status.namespaces) :
                r \in DOMAIN status.namespaces[i].used.rl)
        /\ r \in DOMAIN status.used.rl =>
             status.used.rl[r] = SumOfEntries(status.namespaces, r)

\* A status that lists two namespaces and counts a pod.
C1_Witness ==
  \E q \in Quotas :
    /\ Len(accountQuotas[q].status.namespaces) = 2
    /\ "pods" \in DOMAIN accountQuotas[q].status.used.rl
    /\ accountQuotas[q].status.used.rl["pods"] >= 1

\* C2: every status write leaves a status whose used lists (the total and
\* each namespace entry) name only resources of the quota's spec.quota.hard.
C2_StatusMaskedToHard ==
  [][\A q \in Quotas :
       (accountQuotas'[q].exists
        /\ accountQuotas'[q].status # accountQuotas[q].status)
       => StatusUsedNames(accountQuotas'[q].status) \subseteq
            DOMAIN accountQuotas'[q].hard]_vars

\* q1 no longer declares services, and its status, which listed services
\* for its namespaces, has been written again.
C2_Witness ==
  /\ lastEvent.op = "updateQuota"
  /\ lastEvent.object = "q1"
  /\ DOMAIN accountQuotas["q1"].hard = {"pods"}
  /\ DOMAIN accountQuotas["q1"].status.hard.rl = {"pods"}
  /\ accountQuotas["q1"].status.namespaces # <<>>

\* C3: a reconcile of a quota that was reconciled without error since the
\* cluster last changed, and that meets no error itself, finds nothing to
\* write.
C3_SecondReconcileWritesNothing ==
  [][\A w \in Workers :
       ~ /\ workers[w].pc = "locked"
         /\ settled[workers[w].key]
         /\ workers'[w].pc = "update"
         /\ ~workers'[w].err]_vars

\* C4: once a namespace is created with an account and a quota of that
\* account has been reconciled, the quota's status lists the namespace.
C4_CreatedNamespaceListed ==
  \A q \in Quotas :
    ( /\ lastEvent.op = "createNamespace"
      /\ lastEvent.account = SpecAccount(q)
      /\ accountQuotas[q].exists
      /\ settled[q] )
    => lastEvent.object \in StatusNamespaces(accountQuotas[q].status)

\* C5: once the account is removed from a namespace and a quota of that
\* account has been reconciled, the quota's status no longer lists the
\* namespace.
C5_UnlabelledNamespaceDropped ==
  \A q \in Quotas :
    ( /\ lastEvent.op = "updateNamespace"
      /\ namespaces[lastEvent.object] = NoAccount
      /\ lastEvent.account = SpecAccount(q)
      /\ accountQuotas[q].exists
      /\ settled[q] )
    => lastEvent.object \notin StatusNamespaces(accountQuotas[q].status)

\* C6: a reconciled quota whose account no namespace carries has a status
\* with no namespace entry and a total.used of zero for every resource of
\* spec.quota.hard.
C6_ZeroNamespacesZeroTotals ==
  \A q \in Quotas :
    ( /\ accountQuotas[q].exists
      /\ settled[q]
      /\ \A n \in Namespaces : namespaces[n] # SpecAccount(q) )
    => /\ accountQuotas[q].status.namespaces = <<>>
       /\ \A r \in DOMAIN accountQuotas[q].hard :
            /\ r \in DOMAIN accountQuotas[q].status.used.rl
            /\ accountQuotas[q].status.used.rl[r] = 0

C8_ReconcileExcludesResync ==
  /\ ~ /\ syncPc \in {"locked", "waiting", "synced", "timedOut"}
       /\ \E w \in Workers : workers[w].pc \in {"locked", "update"}
  /\ ~(workerLock.writer /\ workerLock.readers # {})

\* Sync holds the lock while a worker that has an item waits at RLock.
C8_Witness ==
  /\ syncPc \in {"locked", "waiting"}
  /\ workerLock.writer
  /\ \E w \in Workers : workers[w].pc = "got"

\* C9: once Run has returned, both queues are shut down.
C9_RunShutsDownBothQueues ==
  runPc = "returned" =>
    /\ queues["queue"].shuttingDown
    /\ queues["missingUsageQueue"].shuttingDown

\* C10: once the stop channel is closed and Run has returned, the program
\* does not come to rest before every worker has quit: as long as a worker
\* has not terminated, some step remains to be taken.
C10_WorkersTerminate ==
  (stopCh /\ runPc = "returned"
   /\ \E w \in Workers : workers[w].pc \notin {"terminated", "none"})
  => ENABLED LifecycleNext

\* A worker that holds an item (between Get and Done), and one that executes
\* syncHandler.
Holds(w, key) ==
  workers[w].pc \in {"got", "locked", "update"} /\ workers[w].key = key
InSyncHandler(w, key) ==
  workers[w].pc \in {"locked", "update"} /\ workers[w].key = key

\* C11 (as claimed): no two workers execute syncHandler for the same key at
\* the same time, whatever their queues.
C11_OneReconcilePerKey ==
  \A key \in Quotas, v \in Workers, w \in Workers :
    (InSyncHandler(v, key) /\ InSyncHandler(w, key)) => v = w

\* C11 (amended): no two workers of the same queue hold the same key at the
\* same time, and a key a worker holds is in its queue's processing set.
C11_OneReconcilePerKeyAndQueue ==
  \A key \in Quotas, v \in Workers, w \in Workers :
    (Holds(v, key) /\ Holds(w, key) /\ WorkerQueue(v) = WorkerQueue(w))
    => /\ v = w
       /\ key \in queues[WorkerQueue(v)].processing

\* One worker of the primary queue reconciles q1 while q1 is marked dirty
\* again, and the other worker of that queue is idle.
C11_Witness ==
  /\ InSyncHandler("w1", "q1")
  /\ "q1" \in queues["queue"].dirty
  /\ workers["w3"].pc = "idle"

\* C12: addQuota adds the key to one queue and leaves the other alone: to
\* the priority queue when spec.quota.hard differs from status.total.hard,
\* or when a declared hard resource that an evaluator matches has no entry
\* in status.total.used; to the primary queue otherwise.
C12_AddQuotaChoosesOneQueue ==
  \A q \in Quotas :
    (lastEvent.op = "addQuota" /\ lastEvent.object = q) =>
      LET hard       == accountQuotas[q].hard
          statusHard == accountQuotas[q].status.hard.rl
          statusUsed == accountQuotas[q].status.used.rl
          differs    == \/ DOMAIN hard # DOMAIN statusHard
                        \/ \E r \in DOMAIN hard : hard[r] # statusHard[r]
          unused     == \E r \in DOMAIN hard :
                          r \notin DOMAIN statusUsed /\ r \in EvaluatorResources
          chosen     == IF differs \/ unused THEN "missingUsageQueue" ELSE "queue"
      IN  /\ queues[chosen].queue = <<q>>
          /\ queues[chosen].dirty = {q}
          /\ \A other \in QueueNames \ {chosen} : queues[other] = NewQueue

\* addQuota has put on the priority queue a quota whose status carries its
\* hard limits but no usage for pods.
C12_Witness ==
  /\ lastEvent.op = "addQuota"
  /\ accountQuotas["q1"].hard = accountQuotas["q1"].status.hard.rl
  /\ "pods" \in DOMAIN accountQuotas["q1"].hard
  /\ "pods" \notin DOMAIN accountQuotas["q1"].status.used.rl
  /\ queues["missingUsageQueue"].queue = <<"q1">>

\* Sync is between Lock and the deferred Unlock (lines 490-514).
SyncHoldsLock == syncPc \in {"locked", "waiting", "synced", "timedOut"}

\* C14: while the write lock is held, Sync is inside a tick and its next step
\* is possible (no tick is stuck with the lock); the step that ends a tick,
\* after a resyncMonitors error, a timeout or a success, releases the lock;
\* a tick that ends after a timeout leaves the remembered set as it was; and
\* a worker waiting at RLock can take it once no writer holds or awaits it.
C14_SyncReleasesLock ==
  /\ [](workerLock.writer =>
          /\ SyncHoldsLock
          /\ ENABLED (SyncResyncMonitors \/ SyncWait \/ SyncReturn))
  /\ [](\A w \in Workers :
          (workers[w].pc = "got" /\ ~workerLock.writer /\ syncPc # "locking")
          => ENABLED WorkerRLock(w))
  /\ [][(SyncHoldsLock /\ syncPc' = "idle") =>
          /\ ~workerLock'.writer
          /\ syncPc = "timedOut" => oldResources' = oldResources]_vars

\* A tick has ended after a timeout: the lock is free again, the monitors
\* are the new set, the remembered set is still empty, and a worker that
\* has an item waits at RLock.
C14_Witness ==
  /\ syncPc = "idle"
  /\ ~workerLock.writer
  /\ monitors = GetQuotableResources.resources
  /\ oldResources = {}
  /\ \E w \in Workers : workers[w].pc = "got"

\* C15 (as claimed): the write lock is not held while Sync waits for the
\* caches of the monitors.
C15_NoLockWhileWaiting == syncPc = "waiting" => ~workerLock.writer

\* C15 (amended): the write lock is held, with no reader, from its
\* acquisition until the tick returns; the wait for the caches is inside.
C15_LockHeldUntilReturn ==
  /\ SyncHoldsLock => (workerLock.writer /\ workerLock.readers = {})
  /\ syncPc = "waiting" => monitors = GetQuotableResources.resources

\* Sync waits for the caches while both workers have an item and wait at
\* RLock.
C15_Witness ==
  /\ syncPc = "waiting"
  /\ \A w \in OneWorkerPerQueue : workers[w].pc = "got"

\* C16 (as claimed): whenever a tick has ended, the live monitors are the
\* remembered set.
C16_MonitorsAreRemembered ==
  [][(syncPc # "idle" /\ syncPc' = "idle") => monitors' = oldResources']_vars

\* C16 (amended): a tick that ends after the caches have synced leaves the
\* live monitors equal to the remembered set; a tick that ends after a
\* failed resyncMonitors or a timeout leaves the remembered set as it was,
\* and after a timeout the live monitors are the new set already.
C16_MonitorsAreRememberedOnSuccess ==
  [][(SyncHoldsLock /\ syncPc' = "idle") =>
       /\ syncPc = "synced" =>
            /\ monitors' = oldResources'
            /\ oldResources' = GetQuotableResources.resources
       /\ syncPc \in {"locked", "timedOut"} =>
            /\ oldResources' = oldResources
            /\ monitors' = monitors
       /\ syncPc = "timedOut" => monitors' = GetQuotableResources.resources]_vars

\* A tick has ended with success and a quota has been reconciled: the
\* monitors and the remembered set are both the new set.
C16_Witness ==
  /\ syncPc = "idle"
  /\ oldResources = GetQuotableResources.resources
  /\ monitors = oldResources
  /\ settled # NoneSettled

\* syncHandler returns an error in the step that worker w takes: a call of
\* the client or of an evaluator fails in the step, or the step is a status
\* write that meets a newer resource version or a deleted object, or one that
\* follows an evaluator failure.
ReturnsError(w) ==
  /\ Returns(w)
  /\ \/ events' # events
     \/ /\ workers[w].pc = "update"
        /\ \/ workers[w].stale
           \/ workers[w].err
           \/ ~accountQuotas[workers[w].key].exists

\* C17: when syncHandler returns an error, the rate limiter of the worker's
\* queue counts one more failure for the key (AddRateLimited, and no Forget)
\* and the key waits to be added to that queue again; when it returns nil,
\* the rate limiter forgets the key and no delayed add of the key is made.
\* The other queue is left alone either way.
C17_ErrorIsRateLimited ==
  [][\A w \in Workers :
       Returns(w) =>
         LET key  == workers[w].key
             name == WorkerQueue(w)
         IN  /\ IF ReturnsError(w)
                THEN /\ queues'[name].failures[key] = queues[name].failures[key] + 1
                     /\ ~queues[name].shuttingDown => key \in queues'[name].waiting
                ELSE /\ queues'[name].failures[key] = 0
                     /\ queues'[name].waiting = queues[name].waiting
             /\ key \notin queues'[name].processing
             /\ \A other \in QueueNames \ {name} : queues'[other] = queues[other]]_vars

\* A status write has failed: the key has one failure counted and waits to
\* be added to the primary queue again.
C17_Witness ==
  /\ lastEvent.op = "updateFailed"
  /\ queues["queue"].failures[lastEvent.object] = 1
  /\ lastEvent.object \in queues["queue"].waiting
  /\ workers["w1"].pc = "idle"

\* An evaluator fails in the step that worker w takes inside syncHandler.
EvaluatorFails(w) ==
  /\ workers[w].pc = "locked"
  /\ workers'[w] # workers[w]
  /\ events' # events
  /\ lastEvent'.op = "evaluatorFailed"

\* C18 (as claimed): a reconcile in which an evaluator fails goes on to the
\* status write.
C18_EvaluatorFailureStillWrites ==
  [][\A w \in Workers : EvaluatorFails(w) => workers'[w].pc = "update"]_vars

\* C18 (amended): a reconcile in which an evaluator fails goes on to the
\* status write exactly when the status is dirty, with an entry for every
\* namespace of the account, and returns an error after the write; when the
\* status is not dirty it returns the error without a write.  Either way the
\* key is rate limited.
C18_EvaluatorFailureWritesWhenDirty ==
  [][\A w \in Workers :
       LET key      == workers[w].key
           name     == WorkerQueue(w)
           previous == accountQuotas[key].status
           limitsDirty ==
             \/ ~SemanticDeepEqual(accountQuotas[key].hard, previous.hard.rl)
             \/ previous.hard.isNil
             \/ previous.used.isNil
       IN  /\ EvaluatorFails(w) =>
                IF workers'[w].pc = "update"
                THEN /\ workers'[w].err
                     /\ StatusNamespaces(workers'[w].usage) =
                          {n \in Namespaces : namespaces[n] = SpecAccount(key)}
                     /\ Len(workers'[w].usage.namespaces) =
                          Cardinality(StatusNamespaces(workers'[w].usage))
                     /\ \/ limitsDirty
                        \/ ~quotaEquals(workers'[w].usage.used, previous.used.rl)
                     /\ accountQuotas' = accountQuotas
                ELSE /\ workers'[w].pc = "idle"
                     /\ ~limitsDirty
                     /\ accountQuotas' = accountQuotas
                     /\ queues'[name].failures[key] = queues[name].failures[key] + 1
           /\ (workers[w].pc = "update" /\ workers[w].err /\ Returns(w)) =>
                /\ queues'[name].failures[key] = queues[name].failures[key] + 1
                /\ (events' = events /\ ~workers[w].stale /\ accountQuotas[key].exists)
                   => accountQuotas'[key].status = Persisted(workers[w].usage)]_vars

\* After an evaluator failure the partial status of an account with two
\* namespaces has been written, and the key has a failure counted.
C18_Witness ==
  \E q \in Quotas :
    /\ lastEvent.op = "evaluatorFailed"
    /\ lastEvent.object = q
    /\ accountQuotas[q].exists
    /\ Len(accountQuotas[q].status.namespaces) = 2
    /\ "pods" \in DOMAIN accountQuotas[q].hard
    /\ \E i \in 1..2 :
         "pods" \notin DOMAIN accountQuotas[q].status.namespaces[i].used.rl
    /\ \E name \in QueueNames : queues[name].failures[q] = 1
    /\ \A w \in Workers : workers[w].pc \in {"idle", "none"}

\* C19: a worker inside syncHandler for a key whose AccountQuota does not
\* exist returns in its next step without a list of the namespaces (no list
\* or evaluator can fail in the step) and without a write; unless client.Get
\* itself fails, the rate limiter forgets the key, the worker makes no delayed
\* add, and the key is queued again only if it was added while in process.
C19_DeletedQuotaIsSuccess ==
  [][\A w \in Workers :
       LET key  == workers[w].key
           name == WorkerQueue(w)
       IN  (/\ workers[w].pc = "locked"
            /\ ~accountQuotas[key].exists
            /\ workers'[w] # workers[w])
           => /\ workers'[w].pc = "idle"
              /\ accountQuotas' = accountQuotas
              /\ events' # events => lastEvent'.op = "getFailed"
              /\ events' = events =>
                   /\ queues'[name].failures[key] = 0
                   /\ queues'[name].waiting = queues[name].waiting
                   /\ queues'[name].queue =
                        IF key \in queues[name].dirty
                        THEN Append(queues[name].queue, key)
                        ELSE queues[name].queue]_vars

\* A worker is inside syncHandler for a quota that has been deleted, after
\* an earlier reconcile of the key had failed.
C19_Witness ==
  \E w \in Workers :
    /\ workers[w].pc = "locked"
    /\ ~accountQuotas[workers[w].key].exists
    /\ queues[WorkerQueue(w)].failures[workers[w].key] = 1

\* The full-resync timer fires in this step, and the list of the quotas
\* succeeds (listed) or fails.
ResyncTicks(listed) ==
  /\ events' # events
  /\ lastEvent'.op = IF listed THEN "resync" ELSE "resyncListFailed"

\* C20: a full-resync tick whose list succeeds leaves the key of every
\* existing AccountQuota marked in the primary queue, once and to be handed to
\* a worker (queued, or in process and queued again at Done), adds no other
\* key, and leaves the priority queue as it was; a tick whose list fails
\* leaves both queues as they were.
C20_ResyncEnqueuesAllOnPrimary ==
  [][/\ ResyncTicks(TRUE) =>
          /\ \A q \in Quotas :
               LET Q     == queues["queue"]
                   after == queues'["queue"]
                   at    == {i \in 1..Len(after.queue) : after.queue[i] = q}
               IN  /\ Cardinality(at) <= 1
                   /\ IF accountQuotas[q].exists
                      THEN /\ q \in after.dirty
                           /\ at # {} \/ q \in after.processing
                      ELSE /\ q \in after.dirty <=> q \in Q.dirty
                           /\ Cardinality(at) =
                                Cardinality({i \in 1..Len(Q.queue) : Q.queue[i] = q})
          /\ queues'["missingUsageQueue"] = queues["missingUsageQueue"]
     /\ ResyncTicks(FALSE) => queues' = queues]_vars

\* After a tick both quotas are marked in the primary queue, one of them in
\* process and one reconciled before, and the priority queue holds nothing.
C20_Witness ==
  /\ lastEvent.op = "resync"
  /\ queues["queue"].dirty = Quotas
  /\ \E q \in Quotas : q \in queues["queue"].processing
  /\ \E q \in Quotas : settled[q] /\ q \in queues["queue"].dirty
  /\ queues["missingUsageQueue"].dirty = {}

\* C21: an update of an AccountQuota that leaves spec.quota.hard as it was
\* leaves both queues as they were; and a status write of a worker marks the
\* key in neither queue (the worker's own end of the item aside: its queue
\* hands the key out again only if it was marked before).
C21_EqualHardUpdateEnqueuesNothing ==
  [][/\ \A q \in Quotas :
          (/\ events' # events
           /\ lastEvent'.op = "updateQuota"
           /\ lastEvent'.object = q
           /\ accountQuotas'[q].hard = accountQuotas[q].hard)
          => queues' = queues
     /\ \A w \in Workers :
          LET key == workers[w].key
          IN  (/\ workers[w].pc = "update"
               /\ Returns(w)
               /\ events' = events
               /\ ~workers[w].stale
               /\ accountQuotas[key].exists)
              => /\ accountQuotas'[key].status = Persisted(workers[w].usage)
                 /\ accountQuotas'[key].hard = accountQuotas[key].hard
                 /\ \A name \in QueueNames :
                      /\ key \in queues'[name].dirty => key \in queues[name].dirty
                      /\ Len(queues'[name].queue) <=
                           Len(queues[name].queue)
                           + (IF name = WorkerQueue(w) /\ key \in queues[name].dirty
                              THEN 1 ELSE 0)]_vars

\* The status of a quota has been written, nothing has happened to the
\* cluster, and the quota is on no queue.
C21_Witness ==
  \E q \in Quotas :
    /\ events = 0
    /\ ~accountQuotas[q].status.hard.isNil
    /\ \A name \in QueueNames :
         /\ q \notin queues[name].dirty
         /\ q \notin queues[name].processing
         /\ q \notin queues[name].waiting

\* The AccountQuotas of an account ("" has none: such a namespace belongs
\* to no account).
QuotasOf(account) ==
  IF account = NoAccount THEN {}
  ELSE {q \in Quotas : accountQuotas[q].exists /\ SpecAccount(q) = account}

\* The items of a queue, as a set.
Items(Q) == {Q.queue[i] : i \in 1..Len(Q.queue)}

\* The step adds the keys of S to the primary queue and does nothing else to
\* the queues: each key is marked, it is queued unless it was marked already
\* or is in process, and the priority queue is as it was.
EnqueuesOnPrimary(S) ==
  LET Q     == queues["queue"]
      after == queues'["queue"]
  IN  /\ after.dirty = Q.dirty \cup S
      /\ Items(after) = Items(Q) \cup (S \ (Q.dirty \cup Q.processing))
      /\ Len(after.queue) = Cardinality(Items(after))
      /\ after.processing = Q.processing
      /\ after.waiting = Q.waiting
      /\ after.failures = Q.failures
      /\ queues'["missingUsageQueue"] = queues["missingUsageQueue"]

\* The informer delivers in this step a namespace event of one of the ops.
NamespaceEvent(ops) == events' # events /\ lastEvent'.op \in ops

AccountNamespaces(q) == {n \in Namespaces : namespaces[n] = SpecAccount(q)}

StoredUsed(q, n) ==
  LET entries == accountQuotas[q].status.namespaces
      at      == {i \in 1..Len(entries) : entries[i].namespace = n}
  IN  IF at = {} THEN EmptyList ELSE entries[CHOOSE i \in at : TRUE].used.rl

Scored(n, r, failing) == r \in EvaluatorResources /\ <<n, r>> \notin failing

ExpectedUsed(q, n, failing) ==
  [r \in {r \in DOMAIN accountQuotas[q].hard :
            Scored(n, r, failing) \/ r \in DOMAIN StoredUsed(q, n)} |->
     IF Scored(n, r, failing) THEN objects[n][r] ELSE StoredUsed(q, n)[r]]

RECURSIVE ExpectedSum(_, _, _, _)
ExpectedSum(q, ns, r, failing) ==
  IF ns = {} THEN 0
  ELSE LET n == CHOOSE n \in ns : TRUE
           u == ExpectedUsed(q, n, failing)
       IN  (IF r \in DOMAIN u THEN u[r] ELSE 0)
           + ExpectedSum(q, ns \ {n}, r, failing)

ExpectedTotal(q, failing) ==
  [r \in UNION {DOMAIN ExpectedUsed(q, n, failing) : n \in AccountNamespaces(q)} |->
     ExpectedSum(q, AccountNamespaces(q), r, failing)]

\* dirty, as the claim defines it, for the stored status of q and a total.
ExpectedDirty(q, total) ==
  LET hard     == accountQuotas[q].hard
      previous == accountQuotas[q].status
  IN  \/ DOMAIN hard # DOMAIN previous.hard.rl
      \/ \E r \in DOMAIN hard : hard[r] # previous.hard.rl[r]
      \/ previous.hard.isNil
      \/ previous.used.isNil
      \/ total # previous.used.rl

\* The evaluator failures that may have happened in the step: none when the
\* step is no event, one pair when it is the event of an evaluator failure.
FailuresOfStep(q) ==
  IF events' = events THEN {{}}
  ELSE IF lastEvent'.op = "evaluatorFailed"
       THEN {{<<n, r>>} : n \in AccountNamespaces(q),
                          r \in (DOMAIN accountQuotas[q].hard) \cap EvaluatorResources}
       ELSE {}

\* C23: a reconcile that reads the quota and lists the namespaces goes on to
\* the status write exactly when dirty holds for the total it computed; in
\* particular not on account of status.namespaces alone.
C23_WritesIffDirty ==
  [][\A w \in Workers :
       LET q == workers[w].key
       IN  (/\ workers[w].pc = "locked"
            /\ workers'[w] # workers[w]
            /\ accountQuotas[q].exists
            /\ FailuresOfStep(q) # {})
           => \E failing \in FailuresOfStep(q) :
                LET total == ExpectedTotal(q, failing)
                IN  /\ workers'[w].pc = "update" <=> ExpectedDirty(q, total)
                    /\ workers'[w].pc = "update" => workers'[w].usage.used = total
                    /\ workers'[w].pc # "update" =>
                         /\ workers'[w].pc = "idle"
                         /\ accountQuotas' = accountQuotas]_vars

\* A reconcile has ended without a write although the stored
\* status.namespaces is not the list of the account's namespaces.
C23_Witness ==
  \E q \in Quotas :
    /\ accountQuotas[q].exists
    /\ settled[q]
    /\ StatusNamespaces(accountQuotas[q].status) # AccountNamespaces(q)
    /\ ~ExpectedDirty(q, ExpectedTotal(q, {}))

\* C24: in the status a reconcile goes on to write, the entry of each
\* namespace of the account holds, for each resource of spec.quota.hard: the
\* quantity the evaluator computed, when the new usage has one; else the
\* quantity of the stored entry of the namespace, when it has one; else
\* nothing.  The entries are those of the account's namespaces, in order.
C24_UsedIsNewUsageOverPrevious ==
  [][\A w \in Workers :
       LET q == workers[w].key
       IN  (/\ workers[w].pc = "locked"
            /\ workers'[w].pc = "update")
           => \E failing \in FailuresOfStep(q) :
                LET recorded == workers'[w].usage.namespaces
                    listed   == ListNamespaces(namespaces, SpecAccount(q))
                IN  /\ Len(recorded) = Len(listed)
                    /\ \A i \in 1..Len(recorded) :
                         /\ recorded[i].namespace = listed[i]
                         /\ recorded[i].used = ExpectedUsed(q, listed[i], failing)]_vars

\* A status has been written in which n1 keeps, for the resource that no
\* evaluator scores, the quantity stored before, next to a count of pods
\* that is new.
C24_Witness ==
  /\ settled["q1"]
  /\ UnmatchedResource \in DOMAIN accountQuotas["q1"].hard
  /\ LET entries == accountQuotas["q1"].status.namespaces
     IN  /\ Len(entries) = 2
         /\ entries[1].namespace = "n1"
         /\ UnmatchedResource \in DOMAIN entries[1].used.rl
         /\ entries[1].used.rl[UnmatchedResource] = 1
         /\ "pods" \in DOMAIN entries[1].used.rl
         /\ entries[1].used.rl["pods"] = objects["n1"]["pods"]
         /\ UnmatchedResource \notin DOMAIN entries[2].used.rl

\* C25: a worker that holds a key has the key's in-flight marker in its own
\* queue, and holds the read lock exactly while it is inside syncHandler; no
\* marker and no read lock is there without such a worker; a worker that
\* waits at RLock passes when no writer holds or awaits the lock; and the
\* step that ends the iteration calls one of Forget and AddRateLimited,
\* clears the marker and gives the read lock back.
C25_WorkerIteration ==
  /\ [](/\ \A w \in Workers :
             /\ workers[w].pc \in {"got", "locked", "update"}
                => workers[w].key \in queues[WorkerQueue(w)].processing
             /\ workers[w].pc \in {"locked", "update"} <=> w \in workerLock.readers
             /\ (workers[w].pc = "got" /\ RLockFree) => ENABLED WorkerRLock(w)
        /\ \A name \in QueueNames :
             queues[name].processing =
               {workers[w].key : w \in {v \in Workers :
                   /\ WorkerQueue(v) = name
                   /\ workers[v].pc \in {"got", "locked", "update"}}})
  /\ [][\A w \in Workers :
          Returns(w) =>
            LET key  == workers[w].key
                Q    == queues[WorkerQueue(w)]
                after == queues'[WorkerQueue(w)]
            IN  /\ \/ after.failures[key] = 0 /\ after.waiting = Q.waiting
                   \/ /\ after.failures[key] = Q.failures[key] + 1
                      /\ after.waiting = IF Q.shuttingDown THEN Q.waiting
                                         ELSE Q.waiting \cup {key}
                /\ after.processing = Q.processing \ {key}
                /\ workerLock'.readers = workerLock.readers \ {w}
                /\ workers'[w] = IdleWorker]_vars

\* A worker has ended an item after the list of the namespaces failed: no
\* marker and no read lock is left, and the key waits to be added again.
C25_Witness ==
  /\ lastEvent.op = "listFailed"
  /\ \A name \in QueueNames : queues[name].processing = {}
  /\ workerLock.readers = {}
  /\ \E name \in QueueNames : lastEvent.object \in queues[name].waiting
  /\ \A w \in OneWorkerPerQueue : workers[w].pc = "idle"

\* The status a single reconcile of quota q without a failure stores, stated
\* from the cluster.
SingleReconcile(q) ==
  LET listed == ListNamespaces(namespaces, SpecAccount(q))
  IN  [ hard       |-> Decoded(accountQuotas[q].hard),
        used       |-> Decoded(ExpectedTotal(q, {})),
        namespaces |-> [i \in 1..Len(listed) |->
                          [ namespace |-> listed[i],
                            used      |-> Decoded(ExpectedUsed(q, listed[i], {})) ]] ]

\* C26 (as claimed): on a cluster that does not change, with the keys on
\* both queues and two workers on each: once a reconcile of a quota has ended
\* without a failure, the stored status is the status of a single reconcile;
\* and once the stored status is that status, no later write, of a reconcile
\* that read earlier or of one that met a failure, replaces it by another.
C26_TwiceIsOnce ==
  /\ [](\A q \in Quotas :
          (accountQuotas[q].exists /\ settled[q])
          => accountQuotas[q].status = SingleReconcile(q))
  /\ [][\A q \in Quotas :
          (accountQuotas[q].exists /\ accountQuotas[q].status = SingleReconcile(q))
          => accountQuotas'[q].status = SingleReconcile(q)']_vars

\* The quotas replenishQuota is to enqueue for a resource: none when no
\* evaluator is registered for it, else those whose status.total.hard names
\* it.
Replenished(groupResource) ==
  IF groupResource \notin EvaluatorResources THEN {}
  ELSE {q \in Quotas : /\ accountQuotas[q].exists
                       /\ groupResource \in DOMAIN accountQuotas[q].status.hard.rl}

\* replenishQuota is called in this step.
ReplenishCalled(ops) == lastEvent = NoEvent /\ lastEvent'.op \in ops

PersistedHard(q, h) ==
  SemanticDeepEqual(accountQuotas[q].status.hard.rl, h)

\* C28: a quota's spec.quota.hard, as a change has left it, is followed by a
\* state in which the persisted status.total.hard equals it, unless the
\* spec.quota.hard is changed again before that state.
C28_SpecHardIsEventuallyPersisted ==
  \A q \in Quotas :
    accountQuotas[q].exists
    ~> (accountQuotas[q].exists => PersistedHard(q, accountQuotas[q].hard))

\* The hard limits of q1 were changed to other limits, and the status
\* carries the new ones.
C28_Witness ==
  /\ lastEvent = [op |-> "updateQuota", object |-> "q1", account |-> "a"]
  /\ events = 1
  /\ accountQuotas["q1"].hard # InitQuotas({"q1"})["q1"].hard
  /\ ~accountQuotas["q1"].status.hard.isNil
  /\ PersistedHard("q1", accountQuotas["q1"].hard)

====
